---- MODULE Spec2Model ----
(***************************************************************************)
(* data_juicer/utils/model_utils.py: the model zoo (prepare_model,         *)
(* get_model, move_to_cuda), the artifact resolver (check_model) with its  *)
(* primary/backup download, and the loader adapters.                       *)
(*                                                                         *)
(* Strings are TLA+ strings; paths and URLs are built and matched          *)
(* character by character as os.path.join and fnmatch do.                  *)
(***************************************************************************)
EXTENDS Integers, Sequences, FiniteSets, TLC

\* ------------------------------------------------------------------ bounds
\* partial objects (model keys) created by prepare_model over a run
MaxKeys == 2
\* model objects constructed by loaders over a run
MaxInst == 2

\* ----------------------------------------------------------------- strings
\* Python's None where a string is expected (a URL, a rank, a return value)
None == "None"

\* the key None of get_model(model_key=None); real keys are 1, 2, ...
NoneKey == 0

Char(s, i) == SubSeq(s, i, i)

startswith(s, c) == s # "" /\ Char(s, 1) = c

endswith(s, c) == s # "" /\ Char(s, Len(s)) = c

\* posixpath.join(a, b): an absolute b discards a
join(a, b) ==
    IF startswith(b, "/") THEN b
    ELSE IF a = "" \/ endswith(a, "/") THEN a \o b
    ELSE a \o "/" \o b

\* fnmatch.fnmatch(name, pat) for patterns of literals, '*' and '?'
\* (posix: no case folding; '*' also matches '/' and the empty string)
RECURSIVE fnmatch(_, _)
fnmatch(name, pat) ==
    IF pat = "" THEN name = ""
    ELSE IF Char(pat, 1) = "*"
         THEN \/ fnmatch(name, Tail(pat))
              \/ (name # "" /\ fnmatch(Tail(name), pat))
    ELSE IF name = "" THEN FALSE
    ELSE /\ (Char(pat, 1) = "?" \/ Char(pat, 1) = Char(name, 1))
         /\ fnmatch(Tail(name), Tail(pat))

\* str.replace(old, new): every occurrence, left to right
RECURSIVE replace(_, _, _)
replace(s, old, new) ==
    IF Len(s) < Len(old) THEN s
    ELSE IF SubSeq(s, 1, Len(old)) = old
         THEN new \o replace(SubSeq(s, Len(old) + 1, Len(s)), old, new)
    ELSE Char(s, 1) \o replace(Tail(s), old, new)

\* --------------------------------------------------------------- constants
\* DATA_JUICER_MODELS_CACHE, the cache directory
DJMC == "/djmc"

MODEL_LINKS == "https://dail-wlcb.oss-cn-wulanchabu.aliyuncs.com/data_juicer/models/"

\* the dict keeps its declaration order: <<pattern, url>>
BACKUP_MODEL_LINKS ==
    << <<"lid.176.bin", "https://dl.fbaipublicfiles.com/fasttext/supervised-models/">>,
       <<"*.sp.model", "https://huggingface.co/edugp/kenlm/resolve/main/wikipedia/">>,
       <<"*.arpa.bin", "https://huggingface.co/edugp/kenlm/resolve/main/wikipedia/">>,
       <<"punkt.*.pickle", "https://dail-wlcb.oss-cn-wulanchabu.aliyuncs.com/data_juicer/models/">> >>

\* the scan going on after a match: the last matching pattern wins
RECURSIVE last_match(_, _, _)
last_match(table, model_name, i) ==
    IF i > Len(table) THEN None
    ELSE IF last_match(table, model_name, i + 1) # None
    THEN last_match(table, model_name, i + 1)
    ELSE IF fnmatch(model_name, table[i][1]) THEN table[i][2]
    ELSE None

RECURSIVE first_match(_, _, _)
first_match(table, model_name, i) ==
    IF i > Len(table) THEN None
    ELSE IF fnmatch(model_name, table[i][1]) THEN table[i][2]
    ELSE first_match(table, model_name, i + 1)

get_backup_model_link(model_name) == first_match(BACKUP_MODEL_LINKS, model_name, 1)

\* -------------------------------------------------------------- filesystem
\* The world a call runs in: fs maps a path to "absent", "good" (a complete,
\* loadable artifact) or "corrupt"; djmc says whether the directory DJMC
\* exists; log lists, in order, what the call did.
PyBool(b) == IF b THEN "True" ELSE "False"

\* os.path.exists(path); paths outside the modelled file system do not exist
exists(fs, path) == path \in DOMAIN fs /\ fs[path] # "absent"

Logged(w, event) == [w EXCEPT !.log = Append(@, event)]

\* os.makedirs(DJMC)
makedirs(w) == Logged([w EXCEPT !.djmc = TRUE], <<"makedirs", DJMC>>)

\* os.remove(path)
remove(w, path) == Logged([w EXCEPT !.fs[path] = "absent"], <<"remove", path>>)

\* wget.download(url, out): result "fail" raises and writes nothing at out;
\* otherwise the bytes served ("good" or "corrupt") end up at out
download(w, url, out, result) ==
    LET w1 == Logged(w, <<"download", url, out, result>>)
    IN  IF result = "fail" THEN [w |-> w1, ok |-> FALSE]
        ELSE [w |-> [w1 EXCEPT !.fs[out] = result], ok |-> TRUE]

Return(w, val) == [w |-> w, out |-> "return", val |-> val]

Raise(w, exc) == [w |-> w, out |-> "raise", val |-> exc]

\* exit(1): SystemExit
Exit(w) == [w |-> Logged(w, <<"exit", "1">>), out |-> "exit", val |-> "SystemExit"]

\* after_backup with the exit forgotten: the error is reported and the
\* path returned
after_backup_returns(d2, model_name, model_link, backup_model_link, cached_model_path) ==
    IF d2.ok THEN Return(d2.w, cached_model_path)
    ELSE Return(Logged(d2.w, <<"error", model_name, model_link, backup_model_link>>),
                cached_model_path)

\* lines 83-88: the backup attempt d2 is over
after_backup(d2, model_name, model_link, backup_model_link, cached_model_path) ==
    IF d2.ok THEN Return(d2.w, cached_model_path)
    ELSE Exit(Logged(d2.w, <<"error", model_name, model_link, backup_model_link>>))

\* lines 78-82: the primary attempt d1 is over; url is
\* get_backup_model_link(model_name)
after_primary(d1, model_name, model_link, url, cached_model_path, net) ==
    IF d1.ok THEN Return(d1.w, cached_model_path)
    ELSE IF url = None
    \* os.path.join(None, model_name) raises TypeError before
    \* backup_model_link is bound; the handler's f-string then reads
    \* backup_model_link: UnboundLocalError, before logger.error and exit
    THEN Raise(d1.w, "UnboundLocalError")
    ELSE after_backup(download(d1.w, join(url, model_name), cached_model_path, net.backup),
                      model_name, model_link, join(url, model_name), cached_model_path)

\* lines 75-88: the download, reached under force only
check_model_download(w, model_name, cached_model_path, net) ==
    after_primary(download(w, join(MODEL_LINKS, model_name), cached_model_path, net.primary),
                  model_name, join(MODEL_LINKS, model_name),
                  get_backup_model_link(model_name), cached_model_path, net)

\* check_model_cached with the os.remove forgotten: the download goes on
\* top of the stale file
check_model_cached_keeps(w, model_name, cached_model_path, force, net) ==
    IF force THEN check_model_download(w, model_name, cached_model_path, net)
    ELSE Return(w, cached_model_path)

\* check_model_cached downloading whatever force says
check_model_cached_forced(w, model_name, cached_model_path, force, net) ==
    check_model_download(IF exists(w.fs, cached_model_path)
                         THEN remove(w, cached_model_path)
                         ELSE w,
                         model_name, cached_model_path, net)

\* lines 65-89: the cached copy
check_model_cached(w, model_name, cached_model_path, force, net) ==
    IF force
    THEN check_model_download(IF exists(w.fs, cached_model_path)
                              THEN remove(w, cached_model_path)
                              ELSE w,
                              model_name, cached_model_path, net)
    ELSE Return(w, cached_model_path)

\* check_model_local creating the cache directory before looking at
\* model_name
check_model_local_makedirs_first(w, model_name, force, net) ==
    IF exists(w.fs, model_name) THEN Return(IF ~w.djmc THEN makedirs(w) ELSE w, model_name)
    ELSE check_model_cached(IF ~w.djmc THEN makedirs(w) ELSE w,
                            model_name, join(DJMC, model_name), force, net)

\* lines 56-64: a local model, the cache directory
check_model_local(w, model_name, force, net) ==
    IF exists(w.fs, model_name) THEN Return(w, model_name)
    ELSE check_model_cached(IF ~w.djmc THEN makedirs(w) ELSE w,
                            model_name, join(DJMC, model_name), force, net)

check_model(w, model_name, force, net) ==
    check_model_local(Logged(w, <<"check_model", model_name, PyBool(force)>>),
                      model_name, force, net)

\* ------------------------------------------------------------------ loaders
\* A loader returns [w, out, val]: on "return", val is the constructed object
\* [tuple |-> whether it is a Python tuple, elems |-> the classes of its
\* elements]; on "raise" or "exit", val names the exception.
Single(class) == [tuple |-> FALSE, elems |-> <<class>>]

Pair(c1, c2) == [tuple |-> TRUE, elems |-> <<c1, c2>>]

\* a keyword argument, or the parameter's default
kwarg(kwargs, name, default) == IF name \in DOMAIN kwargs THEN kwargs[name] ELSE default

\* the third-party parser handed a path (fasttext.load_model, kenlm.Model,
\* nltk.data.load, SentencePieceProcessor.load, spacy.load): it succeeds
\* exactly on a complete artifact
load(w, path) ==
    [w |-> Logged(w, <<"load", path>>), ok |-> exists(w.fs, path) /\ w.fs[path] = "good"]

\* prepare_spacy_model's decompress_model: a directory at the decompressed
\* path is returned as it is; zipfile unpacks a complete archive to a
\* complete directory and raises on anything else
decompress_model(w, compressed_model_path, decompressed_model_path) ==
    IF exists(w.fs, decompressed_model_path) THEN Return(w, decompressed_model_path)
    ELSE IF exists(w.fs, compressed_model_path) /\ w.fs[compressed_model_path] = "good"
            /\ decompressed_model_path \in DOMAIN w.fs
    THEN Return(Logged([w EXCEPT !.fs[decompressed_model_path] = "good"],
                       <<"extractall", compressed_model_path>>),
                decompressed_model_path)
    ELSE Raise(w, "BadZipFile")

\* one load attempt, load(check_model(model_name, force)), in its steps:
\* the parser has run
attempt_loaded(l, class) ==
    IF l.ok THEN Return(l.w, Single(class)) ELSE Raise(l.w, "LoadError")

\* decompress_model has run
attempt_unzipped(d, class) ==
    IF d.out # "return" THEN d ELSE attempt_loaded(load(d.w, d.val), class)

\* check_model has run
attempt_resolved(c, unzip, class) ==
    IF c.out # "return" THEN c
    ELSE IF unzip
    THEN attempt_unzipped(decompress_model(c.w, c.val, replace(c.val, ".zip", "")), class)
    ELSE attempt_loaded(load(c.w, c.val), class)

attempt(w, model_name, force, unzip, class, net) ==
    attempt_resolved(check_model(w, model_name, force, net), unzip, class)

\* retry without the except branch: the first attempt's failure propagates
retry_never(a1, model_name, unzip, class, net) == a1

\* except: the first attempt a1 is over; whatever it raised, the load is
\* attempted once more with force=True, outside any try
retry(a1, model_name, unzip, class, net) ==
    IF a1.out = "return" THEN a1
    ELSE attempt(a1.w, model_name, TRUE, unzip, class, net)

\* try: load(check_model(model_name))
\* except: load(check_model(model_name, force=True))
load_with_retry(w, model_name, unzip, class, net) ==
    retry(attempt(w, model_name, FALSE, unzip, class, net), model_name, unzip, class, net)

prepare_fasttext_model(w, kwargs, env) ==
    load_with_retry(w, kwarg(kwargs, "model_name", "lid.176.bin"), FALSE, "FastText", env)

\* with the default name_pattern, as for kenlm, nltk and spacy
prepare_sentencepiece_model(w, kwargs, env) ==
    IF "lang" \notin DOMAIN kwargs THEN Raise(w, "TypeError")
    ELSE load_with_retry(w, kwargs.lang \o ".sp.model", FALSE, "SentencePieceProcessor", env)

prepare_kenlm_model(w, kwargs, env) ==
    IF "lang" \notin DOMAIN kwargs THEN Raise(w, "TypeError")
    ELSE load_with_retry(w, kwargs.lang \o ".arpa.bin", FALSE, "Model", env)

nltk_to_punkt == [en |-> "english", fr |-> "french", pt |-> "portuguese", es |-> "spanish"]

prepare_nltk_model(w, kwargs, env) ==
    IF "lang" \notin DOMAIN kwargs THEN Raise(w, "TypeError")
    ELSE IF kwargs.lang \notin DOMAIN nltk_to_punkt THEN Raise(w, "AssertionError")
    ELSE load_with_retry(w, "punkt." \o nltk_to_punkt[kwargs.lang] \o ".pickle", FALSE,
                         "PunktSentenceTokenizer", env)

\* transformers' from_pretrained calls: env.ext says whether they succeed
prepare_huggingface_model(w, kwargs, env) ==
    IF "pretrained_model_name_or_path" \notin DOMAIN kwargs THEN Raise(w, "TypeError")
    ELSE IF env.ext # "ok" THEN Raise(w, "OSError")
    ELSE IF kwarg(kwargs, "return_model", "True") = "True"
         THEN Return(w, Pair("PreTrainedModel", "Processor"))
    ELSE Return(w, Single("Processor"))

prepare_spacy_model(w, kwargs, env) ==
    IF "lang" \notin DOMAIN kwargs THEN Raise(w, "TypeError")
    ELSE IF kwargs.lang \notin {"zh", "en"} THEN Raise(w, "AssertionError")
    ELSE load_with_retry(w, kwargs.lang \o "_core_web_md-3.5.0" \o ".zip", TRUE,
                         "Language", env)

\* prepare_diffusion_model without its three validations
prepare_diffusion_model_unvalidated(w, kwargs, env) ==
    IF {"pretrained_model_name_or_path", "diffusion_type"} \ DOMAIN kwargs # {}
    THEN Raise(w, "TypeError")
    ELSE IF env.ext # "ok" THEN Raise(w, "OSError")
    ELSE Return(w, Single("DiffusionPipeline"))

\* diffusers' from_pretrained: env.ext says whether it succeeds
prepare_diffusion_model(w, kwargs, env) ==
    IF {"pretrained_model_name_or_path", "diffusion_type"} \ DOMAIN kwargs # {}
    THEN Raise(w, "TypeError")
    ELSE IF kwargs.diffusion_type \notin {"image2image", "text2image", "inpainting"}
    THEN Raise(w, "ValueError")
    ELSE IF kwarg(kwargs, "floating_point", "fp32") \notin {"fp32", "fp16"}
    THEN Raise(w, "ValueError")
    ELSE IF ~env.use_cuda /\ kwarg(kwargs, "floating_point", "fp32") = "fp16"
    THEN Raise(w, "ValueError")
    ELSE IF env.ext # "ok" THEN Raise(w, "OSError")
    ELSE Return(w, Single("DiffusionPipeline"))

MODEL_FUNCTION_MAPPING ==
    {"fasttext", "sentencepiece", "kenlm", "nltk", "huggingface", "spacy", "diffusion"}

\* model_func(**model_kwargs) for model_func = MODEL_FUNCTION_MAPPING[model_type]
model_func(model_type, w, kwargs, env) ==
    CASE model_type = "fasttext" -> prepare_fasttext_model(w, kwargs, env)
      [] model_type = "sentencepiece" -> prepare_sentencepiece_model(w, kwargs, env)
      [] model_type = "kenlm" -> prepare_kenlm_model(w, kwargs, env)
      [] model_type = "nltk" -> prepare_nltk_model(w, kwargs, env)
      [] model_type = "huggingface" -> prepare_huggingface_model(w, kwargs, env)
      [] model_type = "spacy" -> prepare_spacy_model(w, kwargs, env)
      [] model_type = "diffusion" -> prepare_diffusion_model(w, kwargs, env)

\* ---------------------------------------------------------------- model zoo
\* A process state S = [proc, keys, zoo, heap, w]:
\*   proc  the calling process;
\*   keys  the partial objects created so far; key k is keys[k] =
\*         [model_type, kwargs].  A partial compares and hashes by identity,
\*         so a key is its index, never its contents;
\*   zoo   MODEL_ZOO of the calling process: key -> index into heap;
\*   heap  the model objects constructed so far, each with the device of
\*         every element and with the call that constructed it (by, key,
\*         proc), which the code does not keep and no operation reads;
\*   w     the file system and the log of the call.
\* A call returns S with out ("return", "raise", "exit") and ret.

\* get_model's return value None
NoObject == 0

Outcome(S, out, ret, val) ==
    [proc |-> S.proc, keys |-> S.keys, zoo |-> S.zoo, heap |-> S.heap, w |-> S.w,
     out |-> out, ret |-> ret, val |-> val]

\* a freshly constructed object: every element starts on the cpu
OnCpu(obj, by, model_key, proc) ==
    [tuple |-> obj.tuple, elems |-> obj.elems,
     device |-> [i \in 1..Len(obj.elems) |-> "cpu"],
     by |-> by, key |-> model_key, proc |-> proc]

\* model_key(): the partial calls its loader with its bound arguments
call_model_key(S, model_key, env) ==
    model_func(S.keys[model_key].model_type,
               Logged(S.w, <<"loader", S.keys[model_key].model_type>>),
               S.keys[model_key].kwargs, env)

\* MODEL_ZOO[model_key] = model_objects, in the function `by`
store(S, model_key, w, obj, by) ==
    [proc |-> S.proc, keys |-> S.keys, w |-> w,
     heap |-> Append(S.heap, OnCpu(obj, by, model_key, S.proc)),
     zoo |-> (model_key :> (Len(S.heap) + 1)) @@ S.zoo]

\* prepare_model_store rebinding MODEL_ZOO to a new dict with the one entry
prepare_model_store_rebinds(S, model_key, r) ==
    IF r.out # "return"
    THEN Outcome([S EXCEPT !.w = r.w, !.keys = SubSeq(@, 1, model_key - 1)],
                 r.out, NoneKey, r.val)
    ELSE Outcome([store(S, model_key, r.w, r.val, "prepare_model")
                      EXCEPT !.zoo = (model_key :> (Len(S.heap) + 1))],
                 "return", model_key, "")

\* lines 330-332: the loader has run with outcome r; a partial whose loader
\* raised is dropped with the exception
prepare_model_store(S, model_key, r) ==
    IF r.out # "return"
    THEN Outcome([S EXCEPT !.w = r.w, !.keys = SubSeq(@, 1, model_key - 1)],
                 r.out, NoneKey, r.val)
    ELSE Outcome(store(S, model_key, r.w, r.val, "prepare_model"), "return", model_key, "")

\* lines 328-332, for the new partial model_key
prepare_model_call(S, model_key, env) ==
    prepare_model_store(S, model_key, call_model_key(S, model_key, env))

prepare_model(S, model_type, model_kwargs, env) ==
    IF model_type \notin MODEL_FUNCTION_MAPPING
    THEN Outcome(S, "raise", NoneKey, "AssertionError")
    ELSE prepare_model_call([S EXCEPT !.keys = Append(@, [model_type |-> model_type,
                                                          kwargs |-> model_kwargs])],
                            Len(S.keys) + 1, env)

\* callable(getattr(module, 'to', None)); "Module" is a torch.nn.Module that
\* is no PreTrainedModel: it has a to() and no device attribute
has_to(class) == class \in {"PreTrainedModel", "DiffusionPipeline", "Module"}

\* module.device is readable
has_device(class) == class \in {"PreTrainedModel", "DiffusionPipeline"}

\* module.to(f'cuda:{rank}') on element i of m = [obj, log, out]
to_cuda(m, i, rank) ==
    [obj |-> [m.obj EXCEPT !.device[i] = "cuda:" \o rank],
     log |-> Append(m.log, <<"to", m.obj.elems[i], "cuda:" \o rank>>),
     out |-> m.out]

\* the loop of move_to_cuda from element i on
RECURSIVE move_elements(_, _, _)
move_elements(m, i, rank) ==
    IF i > Len(m.obj.elems) THEN m
    ELSE IF ~has_to(m.obj.elems[i]) THEN move_elements(m, i + 1, rank)
    ELSE IF has_device(m.obj.elems[i]) THEN move_elements(to_cuda(m, i, rank), i + 1, rank)
    \* the f-string of logger.debug reads module.device
    ELSE [to_cuda(m, i, rank) EXCEPT !.out = "raise"]

\* the loop has run with outcome m
moved(S, inst, m) ==
    Outcome([S EXCEPT !.heap[inst] = m.obj, !.w.log = m.log], m.out, NoObject,
            IF m.out = "raise" THEN "AttributeError" ELSE "")

\* move_to_cuda(model, rank) on the object at heap[inst]
move_to_cuda(S, inst, rank) ==
    moved(S, inst,
          move_elements([obj |-> S.heap[inst], log |-> S.w.log, out |-> "return"], 1, rank))

\* line 363, after move_to_cuda with outcome r
get_model_return(r, model_key) ==
    IF r.out # "return" THEN r ELSE Outcome(r, "return", r.zoo[model_key], "")

\* get_model_place handing rank on as it came, None included
get_model_place_rank_unset(S, model_key, rank, env) ==
    IF env.use_cuda
    THEN get_model_return(move_to_cuda(S, S.zoo[model_key], rank), model_key)
    ELSE Outcome(S, "return", S.zoo[model_key], "")

\* lines 360-363: placement under use_cuda(), then the return
get_model_place(S, model_key, rank, env) ==
    IF env.use_cuda
    THEN get_model_return(move_to_cuda(S, S.zoo[model_key], IF rank = None THEN "0" ELSE rank),
                          model_key)
    ELSE Outcome(S, "return", S.zoo[model_key], "")

\* line 359, the assignment: the loader has run with outcome r
get_model_store(S, model_key, rank, env, r) ==
    IF r.out # "return" THEN Outcome([S EXCEPT !.w = r.w], r.out, NoObject, r.val)
    ELSE get_model_place(store(S, model_key, r.w, r.val, "get_model"), model_key, rank, env)

\* get_model_construct calling the loader a second time for the object it
\* stores
get_model_construct_twice(S, model_key, rank, env) ==
    get_model_store(S, model_key, rank, env,
                    call_model_key([S EXCEPT !.w = call_model_key(S, model_key, env).w],
                                   model_key, env))

\* line 359: MODEL_ZOO[model_key] = model_key(), then the rest of get_model
get_model_construct(S, model_key, rank, env) ==
    get_model_store(S, model_key, rank, env, call_model_key(S, model_key, env))

\* get_model_lookup without the membership test: every get constructs
get_model_lookup_always_constructs(S, model_key, rank, env) ==
    get_model_construct(S, model_key, rank, env)

\* lines 354-363: get_model for a key that is not None
get_model_lookup(S, model_key, rank, env) ==
    IF model_key \notin DOMAIN S.zoo
    THEN get_model_construct(S, model_key, rank, env)
    ELSE get_model_place(S, model_key, rank, env)

\* get_model without the test for None: None is looked up and called
get_model_none_unchecked(S, model_key, rank, env) ==
    IF model_key = NoneKey THEN Outcome(S, "raise", NoObject, "TypeError")
    ELSE get_model_lookup(S, model_key, rank, env)

get_model(S, model_key, rank, env) ==
    IF model_key = NoneKey THEN Outcome(S, "return", NoObject, "")
    ELSE get_model_lookup(S, model_key, rank, env)

\* ------------------------------------------------------------ state machine
VARIABLES
    fs,        \* the files: path -> "absent" | "good" | "corrupt"
    djmc,      \* whether the directory DJMC exists
    use_cuda,  \* data_juicer.use_cuda(), fixed for the run
    keys,      \* the partial objects created by prepare_model
    zoo,       \* MODEL_ZOO of each process: key -> index into heap
    heap,      \* the model objects constructed so far
    last,      \* the call that produced this state, its outcome and its log
    thr        \* the calls in progress, one per thread, each at its step

vars == <<fs, djmc, use_cuda, keys, zoo, heap, last, thr>>

\* the threads that run a call step by step
Threads == {"t1", "t2"}

\* a thread of process p that runs nothing
Idle(p) ==
    [proc |-> p, op |-> "none", family |-> "", key |-> NoneKey, rank |-> None,
     pc |-> "idle", force |-> FALSE, path |-> "", obj |-> NoObject, stamp |-> 0,
     n |-> 0, out |-> "", val |-> "", ret |-> NoObject, log |-> <<>>]

\* no call runs step by step: every call is one step
Atomic == thr = [t \in Threads |-> Idle("main")]

\* the parent process, where operators call prepare_model, and one worker
\* process it hands the keys to; each has its own MODEL_ZOO
Procs == {"main", "worker"}

\* model names handed to check_model: one with an exact backup pattern, one
\* with no backup pattern, one absolute path matching a glob backup pattern
Names == {"lid.176.bin", "custom.bin", "/m/en.sp.model"}

\* the model name the loaders of Configs resolve
ZooNames == {"lid.176.bin"}

\* the files of the run: the cached copy of every name, and lid.176.bin in
\* the working directory
LocalPaths == {"lid.176.bin"}

Paths == {join(DJMC, n) : n \in Names} \cup LocalPaths

\* the (model_type, kwargs) pairs handed to prepare_model
Configs ==
    {[model_type |-> "fasttext", kwargs |-> [model_name |-> "lid.176.bin"]],
     [model_type |-> "huggingface", kwargs |-> [pretrained_model_name_or_path |-> "bert"]],
     [model_type |-> "word2vec", kwargs |-> [model_name |-> "lid.176.bin"]]}

Ranks == {None, "1"}

\* What the outside does during a call: the result of the primary and of the
\* backup download attempt, and whether transformers' from_pretrained
\* succeeds.  A part the call never reads is fixed: the backup result unless
\* the primary fails.
Envs ==
    {e \in [primary : {"good", "corrupt", "fail"}, backup : {"good", "corrupt", "fail"},
            ext : {"ok", "raise"}] : e.primary # "fail" => e.backup = "fail"}

Quiet == [primary |-> "fail", backup |-> "fail", ext |-> "ok"]

\* the environments a loader of this family can tell apart
LoaderEnvs(model_type) ==
    IF model_type \in {"huggingface", "diffusion"}
    THEN {e \in Envs : e.primary = "fail" /\ e.backup = "fail"}
    ELSE {e \in Envs : e.ext = "ok"}

Env(e) == [primary |-> e.primary, backup |-> e.backup, ext |-> e.ext, use_cuda |-> use_cuda]

\* the state a call of process p runs in, and the state it leaves
State(p) == [proc |-> p, keys |-> keys, zoo |-> zoo[p], heap |-> heap,
             w |-> [fs |-> fs, djmc |-> djmc, log |-> <<>>]]

Leave(p, r, call) ==
    /\ fs' = r.w.fs
    /\ djmc' = r.w.djmc
    /\ keys' = r.keys
    /\ zoo' = [zoo EXCEPT ![p] = r.zoo]
    /\ heap' = r.heap
    /\ last' = [op |-> call.op, proc |-> p, key |-> call.key, arg |-> call.arg,
                out |-> r.out, ret |-> r.ret, val |-> r.val, log |-> r.w.log]
    /\ UNCHANGED <<use_cuda, thr>>

Start ==
    /\ fs \in [Paths -> {"absent", "good", "corrupt"}]
    /\ \A path \in LocalPaths : fs[path] # "corrupt"
    /\ djmc \in BOOLEAN
    /\ (\E n \in Names : ~startswith(n, "/") /\ fs[join(DJMC, n)] # "absent") => djmc
    /\ use_cuda \in BOOLEAN
    /\ keys = <<>>
    /\ zoo = [p \in Procs |-> <<>>]
    /\ heap = <<>>
    /\ last = [op |-> "start", proc |-> "main", key |-> NoneKey, arg |-> <<>>,
               out |-> "return", ret |-> NoObject, val |-> "", log |-> <<>>]
    /\ Atomic

\* prepare_model(model_type, **model_kwargs) in process p
Register(p, cfg, e) ==
    /\ Len(keys) < MaxKeys
    /\ Len(heap) < MaxInst
    /\ Leave(p, prepare_model(State(p), cfg.model_type, cfg.kwargs, Env(e)),
             [op |-> "prepare_model", key |-> NoneKey, arg |-> <<cfg.model_type, cfg.kwargs>>])

\* get_model(model_key, rank) in process p
Get(p, model_key, rank, e) ==
    /\ (model_key # NoneKey /\ model_key \notin DOMAIN zoo[p]) => Len(heap) < MaxInst
    /\ Leave(p, get_model(State(p), model_key, rank, Env(e)),
             [op |-> "get_model", key |-> model_key, arg |-> <<rank>>])

GetEnvs(p, model_key) ==
    IF model_key = NoneKey \/ model_key \in DOMAIN zoo[p] THEN {Quiet}
    ELSE LoaderEnvs(keys[model_key].model_type)

\* check_model(model_name, force) called directly in process p
Resolved(S, r) == Outcome([S EXCEPT !.w = r.w], r.out, NoObject, r.val)

Resolve(p, model_name, force, e) ==
    Leave(p, Resolved(State(p), check_model(State(p).w, model_name, force, Env(e))),
          [op |-> "check_model", key |-> NoneKey, arg |-> <<model_name, PyBool(force)>>])

\* a caller's second check_model(model_name, force) after a first that
\* returned c; the log keeps what the first returned
check_model_again(c, model_name, force, net) ==
    IF c.out # "return" THEN c
    ELSE check_model(Logged(c.w, <<"return", c.val>>), model_name, force, net)

\* check_model(model_name) called twice in a row in process p
ResolveTwice(p, model_name, e) ==
    Leave(p, Resolved(State(p),
                      check_model_again(check_model(State(p).w, model_name, FALSE, Env(e)),
                                        model_name, FALSE, Env(e))),
          [op |-> "check_model_twice", key |-> NoneKey, arg |-> <<model_name, "False">>])

ResolveEnvs(force) == IF force THEN LoaderEnvs("fasttext") ELSE {Quiet}

\* move_to_cuda(model, rank) called directly on a model of the zoo
Place(p, model_key, rank) ==
    /\ model_key \in DOMAIN zoo[p]
    /\ Leave(p, move_to_cuda(State(p), zoo[p][model_key], rank),
             [op |-> "move_to_cuda", key |-> model_key, arg |-> <<rank>>])

\* The model zoo: the parent registers models, both processes get and place
\* them, and the artifact of the loaders is also resolved directly.
Init ==
    /\ Start
    /\ \A path \in Paths \ {join(DJMC, n) : n \in ZooNames} : fs[path] = "absent"

Next ==
    \/ \E cfg \in Configs :
         \E e \in LoaderEnvs(cfg.model_type) : Register("main", cfg, e)
    \/ \E p \in Procs, k \in 0..Len(keys), rank \in Ranks :
         \E e \in GetEnvs(p, k) : Get(p, k, rank, e)
    \/ \E n \in ZooNames, force \in BOOLEAN :
         \E e \in ResolveEnvs(force) : Resolve("main", n, force, e)
    \/ \E p \in Procs, k \in 1..Len(keys), rank \in {"0", "1"} : Place(p, k, rank)

Spec == Init /\ [][Next]_vars

\* The artifact resolver alone: check_model on every name, over every file
\* system.
InitResolve == Start

NextResolve ==
    \/ \E n \in Names, force \in BOOLEAN :
          \E e \in ResolveEnvs(force) : Resolve("main", n, force, e)
    \/ \E n \in Names : ResolveTwice("main", n, Quiet)

SpecResolve == InitResolve /\ [][NextResolve]_vars

\* The loader adapters: every family of MODEL_FUNCTION_MAPPING, and one
\* outside it, with valid and invalid parameters.
LoadConfigs ==
    {[model_type |-> "fasttext", kwargs |-> [model_name |-> "lid.176.bin"]],
     [model_type |-> "sentencepiece", kwargs |-> [lang |-> "en"]],
     [model_type |-> "kenlm", kwargs |-> [lang |-> "en"]],
     [model_type |-> "nltk", kwargs |-> [lang |-> "en"]],
     [model_type |-> "nltk", kwargs |-> [lang |-> "de"]],
     [model_type |-> "spacy", kwargs |-> [lang |-> "en"]],
     [model_type |-> "spacy", kwargs |-> [lang |-> "fr"]],
     [model_type |-> "huggingface", kwargs |-> [pretrained_model_name_or_path |-> "bert"]],
     [model_type |-> "diffusion",
      kwargs |-> [pretrained_model_name_or_path |-> "sd", diffusion_type |-> "text2image"]],
     [model_type |-> "diffusion",
      kwargs |-> [pretrained_model_name_or_path |-> "sd", diffusion_type |-> "video"]],
     [model_type |-> "diffusion",
      kwargs |-> [pretrained_model_name_or_path |-> "sd", diffusion_type |-> "text2image",
                  floating_point |-> "fp16"]],
     [model_type |-> "diffusion",
      kwargs |-> [pretrained_model_name_or_path |-> "sd", diffusion_type |-> "inpainting",
                  floating_point |-> "int8"]],
     [model_type |-> "word2vec", kwargs |-> [model_name |-> "lid.176.bin"]]}

\* the artifact each artifact-backed family of LoadConfigs resolves
Artifact ==
    [fasttext |-> "lid.176.bin", sentencepiece |-> "en.sp.model", kenlm |-> "en.arpa.bin",
     nltk |-> "punkt.english.pickle", spacy |-> "en_core_web_md-3.5.0.zip"]

\* the cached copy of every artifact, the directory the spacy archive
\* unpacks to, and lid.176.bin in the working directory
LoadPaths ==
    {join(DJMC, Artifact[f]) : f \in DOMAIN Artifact}
        \cup {join(DJMC, "en_core_web_md-3.5.0"), "lid.176.bin"}

\* at most this many of LoadPaths hold a file at the start
MaxFiles == 2

\* The process "main" has called prepare_model(cfg) at a time when every
\* artifact was in place and loadable (for an invalid cfg the call raised
\* and left nothing); since then files have come and gone.
Registered(cfg) ==
    prepare_model([proc |-> "main", keys |-> <<>>, zoo |-> <<>>, heap |-> <<>>,
                   w |-> [fs |-> [path \in LoadPaths |-> "good"], djmc |-> TRUE,
                          log |-> <<>>]],
                  cfg.model_type, cfg.kwargs, Env(Quiet))

InitLoad ==
    /\ fs \in [LoadPaths -> {"absent", "good", "corrupt"}]
    /\ Cardinality({path \in LoadPaths : fs[path] # "absent"}) <= MaxFiles
    /\ djmc \in BOOLEAN
    /\ (\E path \in LoadPaths : startswith(path, "/") /\ fs[path] # "absent") => djmc
    /\ use_cuda \in BOOLEAN
    /\ \E cfg \in LoadConfigs :
          /\ keys = Registered(cfg).keys
          /\ heap = Registered(cfg).heap
          /\ zoo = [p \in Procs |-> IF p = "main" THEN Registered(cfg).zoo ELSE <<>>]
    /\ last = [op |-> "start", proc |-> "main", key |-> NoneKey, arg |-> <<>>,
               out |-> "return", ret |-> NoObject, val |-> "", log |-> <<>>]
    /\ Atomic

\* one call on each of these file systems: prepare_model in the parent, or
\* get_model in either process
NextLoad ==
    /\ last.op = "start"
    /\ \/ \E cfg \in LoadConfigs :
            \E e \in LoaderEnvs(cfg.model_type) : Register("main", cfg, e)
       \/ \E p \in Procs, k \in 1..Len(keys), rank \in Ranks :
            \E e \in GetEnvs(p, k) : Get(p, k, rank, e)

SpecLoad == InitLoad /\ [][NextLoad]_vars

\* move_to_cuda on its own, on any object handed to it: a single module or
\* a tuple of modules, each with or without a to() and a device.
MaxElems == 3

Classes == {"PreTrainedModel", "Processor", "Module"}

Objects ==
    {Single(c) : c \in Classes}
        \cup UNION {{[tuple |-> TRUE, elems |-> e] : e \in [1..n -> Classes]} : n \in 1..MaxElems}

InitPlace ==
    /\ fs = [path \in Paths |-> "absent"]
    /\ djmc = FALSE
    /\ use_cuda = TRUE
    /\ keys = <<>>
    /\ zoo = [p \in Procs |-> <<>>]
    /\ \E obj \in Objects : heap = <<OnCpu(obj, "caller", NoneKey, "main")>>
    /\ last = [op |-> "start", proc |-> "main", key |-> NoneKey, arg |-> <<>>,
               out |-> "return", ret |-> NoObject, val |-> "", log |-> <<>>]
    /\ Atomic

\* move_to_cuda(model, rank) on the object at heap[inst]
PlaceObject(p, inst, rank) ==
    Leave(p, move_to_cuda(State(p), inst, rank),
          [op |-> "move_to_cuda", key |-> NoneKey, arg |-> <<rank, heap[inst].device>>])

NextPlace == \E rank \in {"0", "1"} : PlaceObject("main", 1, rank)

SpecPlace == InitPlace /\ [][NextPlace]_vars

\* ------------------------------------------------------------ calls in steps
\* prepare_model and get_model run step by step by the threads of thr, for
\* the loaders that resolve an artifact and load it (fasttext, sentencepiece,
\* kenlm, nltk).  A step is what a thread does between two points where
\* another thread or process can run: a test of the file system, a change
\* of it, a download, a load, a read or a write of MODEL_ZOO.  A thread's
\* record holds the call's locals: pc is the step it is at, force the
\* attempt it is in, path the path check_model works on, obj the object its
\* loader constructed, stamp the order of its write to MODEL_ZOO (0: none).
StepFamilies == {"fasttext", "sentencepiece", "kenlm", "nltk"}

ArtifactKwargs(family) ==
    IF family = "fasttext" THEN [model_name |-> Artifact[family]] ELSE [lang |-> "en"]

ArtifactClass ==
    [fasttext |-> "FastText", sentencepiece |-> "SentencePieceProcessor",
     kenlm |-> "Model", nltk |-> "PunktSentenceTokenizer"]

\* the files as thread t's call finds them, with the log of the call
World(t) == [fs |-> fs, djmc |-> djmc, log |-> thr[t].log]

\* thread t goes on as record r, leaving the world w
Step(t, r, w) ==
    /\ thr' = [thr EXCEPT ![t] = [r EXCEPT !.log = w.log]]
    /\ fs' = w.fs
    /\ djmc' = w.djmc
    /\ UNCHANGED <<use_cuda, last>>

Failed(r, out, exc) == [r EXCEPT !.pc = "failed", !.out = out, !.val = exc]

\* attempt_failed without the except branch
attempt_failed_gives_up(r, exc) == Failed(r, "raise", exc)

\* a load attempt raised exc: in the try, the except branch starts the
\* attempt with force=True; in the except branch, exc propagates
attempt_failed(r, exc) ==
    IF ~r.force THEN [r EXCEPT !.pc = "resolve", !.force = TRUE]
    ELSE Failed(r, "raise", exc)

\* prepare_model, lines 323-330: the partial is created and called
CallPrepare(t) ==
    /\ thr[t].pc = "call" /\ thr[t].op = "prepare_model"
    /\ keys' = Append(keys, [model_type |-> thr[t].family,
                             kwargs |-> ArtifactKwargs(thr[t].family)])
    /\ Step(t, [thr[t] EXCEPT !.key = Len(keys) + 1, !.pc = "resolve", !.force = FALSE],
            Logged(World(t), <<"loader", thr[t].family>>))
    /\ UNCHANGED <<zoo, heap>>

\* get_model, lines 355-359: the membership test, and the call of the key
CallGet(t) ==
    /\ thr[t].pc = "call" /\ thr[t].op = "get_model"
    /\ IF thr[t].key \in DOMAIN zoo[thr[t].proc]
       THEN Step(t, [thr[t] EXCEPT !.pc = "place"], World(t))
       ELSE Step(t, [thr[t] EXCEPT !.pc = "resolve", !.force = FALSE],
                 Logged(World(t), <<"loader", thr[t].family>>))
    /\ UNCHANGED <<keys, zoo, heap>>

\* check_model, lines 57-66: up to the test of the cached file under force
ResolveCached(t, w) ==
    IF ~thr[t].force
    THEN Step(t, [thr[t] EXCEPT !.pc = "load", !.path = join(DJMC, Artifact[thr[t].family])], w)
    ELSE IF exists(w.fs, join(DJMC, Artifact[thr[t].family]))
    THEN Step(t, [thr[t] EXCEPT !.pc = "remove", !.path = join(DJMC, Artifact[thr[t].family])], w)
    ELSE Step(t, [thr[t] EXCEPT !.pc = "primary", !.path = join(DJMC, Artifact[thr[t].family])], w)

ResolveLocal(t, w) ==
    IF exists(w.fs, Artifact[thr[t].family])
    THEN Step(t, [thr[t] EXCEPT !.pc = "load", !.path = Artifact[thr[t].family]], w)
    ELSE ResolveCached(t, IF ~w.djmc THEN makedirs(w) ELSE w)

ResolveStep(t) ==
    /\ thr[t].pc = "resolve"
    /\ ResolveLocal(t, Logged(World(t), <<"check_model", Artifact[thr[t].family],
                                         PyBool(thr[t].force)>>))
    /\ UNCHANGED <<keys, zoo, heap>>

\* line 67: os.remove of the file line 66 found; FileNotFoundError when it
\* is gone by now
RemoveStep(t) ==
    /\ thr[t].pc = "remove"
    /\ IF exists(fs, thr[t].path)
       THEN Step(t, [thr[t] EXCEPT !.pc = "primary"], remove(World(t), thr[t].path))
       ELSE Step(t, attempt_failed(thr[t], "FileNotFoundError"), World(t))
    /\ UNCHANGED <<keys, zoo, heap>>

\* lines 76-81: the primary download has ended as d; the file is written
\* when the download completes
PrimaryDone(t, d) ==
    IF d.ok THEN Step(t, [thr[t] EXCEPT !.pc = "load"], d.w)
    ELSE IF get_backup_model_link(Artifact[thr[t].family]) = None
    THEN Step(t, Failed(thr[t], "raise", "UnboundLocalError"), d.w)
    ELSE Step(t, [thr[t] EXCEPT !.pc = "backup"], d.w)

Primary(t, result) ==
    /\ thr[t].pc = "primary"
    /\ PrimaryDone(t, download(World(t), join(MODEL_LINKS, Artifact[thr[t].family]),
                               thr[t].path, result))
    /\ UNCHANGED <<keys, zoo, heap>>

\* lines 82-88: the backup download has ended as d
BackupDone(t, d, backup_model_link) ==
    IF d.ok THEN Step(t, [thr[t] EXCEPT !.pc = "load"], d.w)
    ELSE Step(t, Failed(thr[t], "exit", "SystemExit"),
              Exit(Logged(d.w, <<"error", Artifact[thr[t].family],
                                 join(MODEL_LINKS, Artifact[thr[t].family]),
                                 backup_model_link>>)).w)

Backup(t, result) ==
    /\ thr[t].pc = "backup"
    /\ BackupDone(t, download(World(t),
                              join(get_backup_model_link(Artifact[thr[t].family]),
                                   Artifact[thr[t].family]),
                              thr[t].path, result),
                  join(get_backup_model_link(Artifact[thr[t].family]),
                       Artifact[thr[t].family]))
    /\ UNCHANGED <<keys, zoo, heap>>

\* the parser reads the file at path: the loader returns a new object, or
\* the attempt has failed
LoadDone(t, l) ==
    IF l.ok
    THEN /\ heap' = Append(heap, OnCpu(Single(ArtifactClass[thr[t].family]), thr[t].op,
                                       thr[t].key, thr[t].proc))
         /\ Step(t, [thr[t] EXCEPT !.pc = "store", !.obj = Len(heap) + 1], l.w)
    ELSE /\ heap' = heap
         /\ Step(t, attempt_failed(thr[t], "LoadError"), l.w)

LoadStep(t) ==
    /\ thr[t].pc = "load"
    /\ LoadDone(t, load(World(t), thr[t].path))
    /\ UNCHANGED <<keys, zoo>>

\* MODEL_ZOO[model_key] = obj
stored(MODEL_ZOO, model_key, obj) == (model_key :> obj) @@ MODEL_ZOO

\* lines 331-332 and 359: the write to MODEL_ZOO; prepare_model returns the
\* key
StoreStep(t) ==
    /\ thr[t].pc = "store"
    /\ zoo' = [zoo EXCEPT ![thr[t].proc] = stored(@, thr[t].key, thr[t].obj)]
    /\ Step(t, IF thr[t].op = "prepare_model"
               THEN [thr[t] EXCEPT !.pc = "done", !.out = "return", !.ret = thr[t].key,
                                   !.stamp = 1 + Cardinality({u \in Threads : thr[u].stamp > 0})]
               ELSE [thr[t] EXCEPT !.pc = "place",
                                   !.stamp = 1 + Cardinality({u \in Threads : thr[u].stamp > 0})],
            World(t))
    /\ UNCHANGED <<keys, heap>>

\* lines 360-362: move_to_cuda on what MODEL_ZOO holds now
Placed(t, r) ==
    /\ heap' = r.heap
    /\ Step(t, IF r.out = "return" THEN [thr[t] EXCEPT !.pc = "return"]
               ELSE Failed(thr[t], r.out, r.val),
            r.w)

PlaceStep(t) ==
    /\ thr[t].pc = "place"
    /\ IF use_cuda
       THEN Placed(t, move_to_cuda([proc |-> thr[t].proc, keys |-> keys,
                                    zoo |-> zoo[thr[t].proc], heap |-> heap, w |-> World(t)],
                                   zoo[thr[t].proc][thr[t].key],
                                   IF thr[t].rank = None THEN "0" ELSE thr[t].rank))
       ELSE /\ heap' = heap
            /\ Step(t, [thr[t] EXCEPT !.pc = "return"], World(t))
    /\ UNCHANGED <<keys, zoo>>

\* line 363: return MODEL_ZOO[model_key]
ReturnStep(t) ==
    /\ thr[t].pc = "return"
    /\ Step(t, [thr[t] EXCEPT !.pc = "done", !.out = "return",
                              !.ret = zoo[thr[t].proc][thr[t].key]],
            World(t))
    /\ UNCHANGED <<keys, zoo, heap>>

\* the steps that touch no network
LocalStep(t) ==
    \/ CallPrepare(t)
    \/ CallGet(t)
    \/ ResolveStep(t)
    \/ RemoveStep(t)
    \/ LoadStep(t)
    \/ StoreStep(t)
    \/ PlaceStep(t)
    \/ ReturnStep(t)

\* thread t of process p about to call op
Calling(p, op, family, model_key, rank) ==
    [Idle(p) EXCEPT !.op = op, !.family = family, !.key = model_key, !.rank = rank,
                    !.pc = "call"]

\* the artifact-backed configuration of a family
ArtifactConfig(family) == [model_type |-> family, kwargs |-> ArtifactKwargs(family)]

\* the files at the start of a stepwise run: of the cached artifacts, only
\* the one of family may be there; lid.176.bin in the working directory may
\* be there when local says so
StepFiles(family, local) ==
    /\ fs \in [LoadPaths -> {"absent", "good", "corrupt"}]
    /\ \A path \in LoadPaths \ {join(DJMC, Artifact[family]), "lid.176.bin"} :
          fs[path] = "absent"
    /\ ~local => fs["lid.176.bin"] = "absent"
    /\ djmc \in BOOLEAN
    /\ fs[join(DJMC, Artifact[family])] # "absent" => djmc

\* the parent has registered the configuration of family; the key is in
\* the hands of the worker process, whose MODEL_ZOO is empty
HandedOver(family) ==
    /\ keys = Registered(ArtifactConfig(family)).keys
    /\ heap = Registered(ArtifactConfig(family)).heap
    /\ zoo = [p \in Procs |-> IF p = "main" THEN Registered(ArtifactConfig(family)).zoo
                              ELSE <<>>]

NoCall ==
    last = [op |-> "start", proc |-> "main", key |-> NoneKey, arg |-> <<>>,
            out |-> "return", ret |-> NoObject, val |-> "", log |-> <<>>]

\* gets a thread makes after its first
MaxGets == 1

\* a later get_model by a thread whose get has returned, once no call is
\* in progress
Recall(t) ==
    /\ thr[t].pc = "done" /\ thr[t].op = "get_model" /\ thr[t].n < MaxGets
    /\ \A u \in Threads : thr[u].pc \in {"idle", "done", "failed"}
    /\ Step(t, [thr[t] EXCEPT !.pc = "call", !.n = @ + 1, !.out = "", !.ret = NoObject],
            World(t))
    /\ UNCHANGED <<keys, zoo, heap>>

\* Two threads of the worker process call get_model on the same key, absent
\* from the worker's MODEL_ZOO; every download succeeds with a loadable file.
InitThreads ==
    /\ use_cuda \in BOOLEAN
    /\ NoCall
    /\ \E family \in StepFamilies :
          /\ StepFiles(family, FALSE)
          /\ HandedOver(family)
          /\ \E r1, r2 \in Ranks :
                thr = [t \in Threads |->
                          Calling("worker", "get_model", family, 1,
                                  IF t = "t1" THEN r1 ELSE r2)]

NextThreads ==
    \E t \in Threads :
        \/ CallGet(t)
        \/ ResolveStep(t)
        \/ RemoveStep(t)
        \/ Primary(t, "good")
        \/ LoadStep(t)
        \/ StoreStep(t)
        \/ PlaceStep(t)
        \/ ReturnStep(t)
        \/ Recall(t)

SpecThreads == InitThreads /\ [][NextThreads]_vars

\* Two processes, each with its own MODEL_ZOO, call prepare_model with the
\* same configuration; they share the cache directory, where the artifact is
\* absent; every download succeeds with a loadable file.
InitRace ==
    /\ use_cuda \in BOOLEAN
    /\ NoCall
    /\ keys = <<>>
    /\ heap = <<>>
    /\ zoo = [p \in Procs |-> <<>>]
    /\ \E family \in StepFamilies :
          /\ StepFiles(family, FALSE)
          /\ fs[join(DJMC, Artifact[family])] = "absent"
          /\ thr = [t \in Threads |->
                      Calling(IF t = "t1" THEN "main" ELSE "worker", "prepare_model",
                              family, NoneKey, None)]

NextRace ==
    \E t \in Threads :
        \/ CallPrepare(t)
        \/ ResolveStep(t)
        \/ RemoveStep(t)
        \/ Primary(t, "good")
        \/ LoadStep(t)
        \/ StoreStep(t)

SpecRace == InitRace /\ [][NextRace]_vars

\* get_backup_model_link on its own, over tables in which patterns overlap:
\* BACKUP_MODEL_LINKS as declared, and every table of up to MaxPatterns
\* distinct patterns, the i-th with its own URL.
MaxPatterns == 3

Patterns == {"a.bin", "*.bin", "a.*", "?.bin"}

BackupNames == {"a.bin", "b.bin", "ab.bin", "a.txt", "lid.176.bin", "en.sp.model"}

Digit == <<"1", "2", "3", "4", "5">>

Tables ==
    {BACKUP_MODEL_LINKS}
        \cup UNION {{[i \in 1..n |-> <<pats[i], "https://backup" \o Digit[i] \o "/">>] :
                       pats \in {q \in [1..n -> Patterns] :
                                   \A i, j \in 1..n : i # j => q[i] # q[j]}} :
                    n \in 0..MaxPatterns}

\* get_backup_model_link(model_name) with BACKUP_MODEL_LINKS = table
Lookup(table, model_name) ==
    /\ last' = [op |-> "get_backup_model_link", proc |-> "main", key |-> NoneKey,
                arg |-> <<table, model_name>>, out |-> "return", ret |-> NoObject,
                val |-> first_match(table, model_name, 1), log |-> <<>>]
    /\ UNCHANGED <<fs, djmc, use_cuda, keys, zoo, heap, thr>>

InitBackup ==
    /\ fs = [path \in Paths |-> "absent"]
    /\ djmc = FALSE
    /\ use_cuda = FALSE
    /\ keys = <<>>
    /\ zoo = [p \in Procs |-> <<>>]
    /\ heap = <<>>
    /\ NoCall
    /\ Atomic

NextBackup == \E table \in Tables, model_name \in BackupNames : Lookup(table, model_name)

SpecBackup == InitBackup /\ [][NextBackup]_vars

\* Cold start: one call, prepare_model in the parent or a first get_model
\* in the worker, with the artifact absent from the cache directory and every
\* download successful with a loadable file.  The call is the only thread
\* of its process and every call it makes is blocking: a step that can be
\* taken is taken (weak fairness).
InitCold ==
    /\ use_cuda \in BOOLEAN
    /\ NoCall
    /\ \E family \in StepFamilies :
          /\ StepFiles(family, TRUE)
          /\ fs[join(DJMC, Artifact[family])] = "absent"
          /\ \/ /\ keys = <<>>
                /\ heap = <<>>
                /\ zoo = [p \in Procs |-> <<>>]
                /\ thr = [t \in Threads |->
                            IF t = "t1"
                            THEN Calling("main", "prepare_model", family, NoneKey, None)
                            ELSE Idle("main")]
             \/ /\ HandedOver(family)
                /\ \E rank \in Ranks :
                      thr = [t \in Threads |->
                                IF t = "t1"
                                THEN Calling("worker", "get_model", family, 1, rank)
                                ELSE Idle("worker")]

NextCold ==
    \/ CallPrepare("t1")
    \/ CallGet("t1")
    \/ ResolveStep("t1")
    \/ Primary("t1", "good")
    \/ LoadStep("t1")
    \/ StoreStep("t1")
    \/ PlaceStep("t1")
    \/ ReturnStep("t1")

SpecCold == InitCold /\ [][NextCold]_vars /\ WF_vars(NextCold)

\* ------------------------------------------------------------------ claims
\* the events of one kind in a call's log, in order
Events(log, kind) == SelectSeq(log, LAMBDA ev : ev[1] = kind)

\* how often the call invoked a loader (model_key())
LoaderCalls(log) == Len(Events(log, "loader"))

\* the download attempts of the call that raised
FailedDownloads(log) == SelectSeq(Events(log, "download"), LAMBDA ev : ev[4] = "fail")

\* the objects prepare_model constructed and stored for key k in process p
RegisteredObject(p, k) ==
    {i \in 1..Len(heap) : heap[i].by = "prepare_model" /\ heap[i].key = k /\ heap[i].proc = p}

\* C1: in one process, the cache table holds at most one model object per
\* (family, parameter values) pair: keys of the same family with equal
\* parameter values lead to one and the same object.
C1_OneModelPerConfiguration ==
    \A p \in Procs : \A k1, k2 \in DOMAIN zoo[p] :
        keys[k1] = keys[k2] => zoo[p][k1] = zoo[p][k2]

\* C2: get_model on a key that prepare_model returned in the same process
\* invokes no loader and returns the one object prepare_model stored for it.
C2_GetReturnsRegistered ==
    (last.op = "get_model" /\ last.key # NoneKey
        /\ RegisteredObject(last.proc, last.key) # {})
    => /\ LoaderCalls(last.log) = 0
       /\ Cardinality(RegisteredObject(last.proc, last.key)) = 1
       /\ last.out = "return"
       /\ last.ret \in RegisteredObject(last.proc, last.key)

C2_Witness ==
    /\ last.op = "get_model" /\ last.proc = "main" /\ last.key = 1
    /\ Len(keys) = 2
    /\ last.ret \in RegisteredObject("main", 1)

\* C3: a get_model on a key absent from the process's table invokes the
\* loader exactly once and, when it returns, has stored the new object under
\* the key and returns it; a get_model on a key present in the table invokes
\* no loader and returns the stored object, which stays stored.
C3_LazyGetConstructsOnce ==
    [][(last'.op = "get_model" /\ last'.key # NoneKey) =>
        IF last'.key \notin DOMAIN zoo[last'.proc]
        THEN /\ LoaderCalls(last'.log) = 1
             /\ last'.out = "return" =>
                    /\ Len(heap') = Len(heap) + 1
                    /\ last'.key \in DOMAIN zoo'[last'.proc]
                    /\ zoo'[last'.proc][last'.key] = Len(heap')
                    /\ last'.ret = Len(heap')
             /\ last'.out # "return" =>
                    /\ heap' = heap
                    /\ last'.key \notin DOMAIN zoo'[last'.proc]
        ELSE /\ LoaderCalls(last'.log) = 0
             /\ Len(heap') = Len(heap)
             /\ last'.out = "return"
             /\ last'.ret = zoo[last'.proc][last'.key]
             /\ zoo'[last'.proc][last'.key] = zoo[last'.proc][last'.key]
      ]_vars

C3_Witness ==
    /\ last.op = "get_model" /\ last.proc = "worker" /\ last.out = "return"
    /\ LoaderCalls(last.log) = 0
    /\ last.ret \in 1..Len(heap)
    /\ heap[last.ret].by = "get_model"
    /\ RegisteredObject("worker", last.key) = {}

\* C4: an entry of a cache table is never removed and never replaced: over
\* every call, each key of each table keeps its object, and the object keeps
\* its elements and its origin.
C4_EntriesNeverRemovedOrReplaced ==
    [][\A p \in Procs : \A k \in DOMAIN zoo[p] :
          /\ k \in DOMAIN zoo'[p]
          /\ zoo'[p][k] = zoo[p][k]
          /\ zoo[p][k] \in 1..Len(heap')
          /\ heap'[zoo[p][k]].elems = heap[zoo[p][k]].elems
          /\ heap'[zoo[p][k]].by = heap[zoo[p][k]].by
          /\ heap'[zoo[p][k]].key = heap[zoo[p][k]].key
      ]_vars

C4_Witness ==
    /\ DOMAIN zoo["main"] # {}
    /\ DOMAIN zoo["worker"] # {}
    /\ last.op = "check_model" /\ last.arg = <<"lid.176.bin", "True">>
    /\ last.out = "exit"
    /\ fs[join(DJMC, "lid.176.bin")] = "absent"

\* C5: get_model(None, rank) returns None and changes nothing: no table
\* entry, no loader call, no file or directory change, no placement.
C5_GetNoneIsNoOp ==
    [][(last'.op = "get_model" /\ last'.key = NoneKey) =>
          /\ last'.out = "return"
          /\ last'.ret = NoObject
          /\ last'.log = <<>>
          /\ UNCHANGED <<fs, djmc, keys, zoo, heap, use_cuda>>
      ]_vars

C5_Witness ==
    /\ last.op = "get_model" /\ last.key = NoneKey /\ last.arg = <<"1">>
    /\ use_cuda
    /\ \E i \in 1..Len(heap) : heap[i].device[1] = "cuda:0"

\* C6: whenever check_model returns, the file at the returned path exists.
C6_ReturnedPathExists ==
    (last.op = "check_model" /\ last.out = "return") => exists(fs, last.val)

\* C7: the download attempts of a check_model call are at most two; the
\* first requests MODEL_LINKS followed by the model name; a second follows
\* only a failed first and, for a name matching a backup pattern, requests
\* that pattern's URL followed by the model name.
C7_FallbackOrdering ==
    last.op = "check_model" =>
        /\ Len(Events(last.log, "download")) <= 2
        /\ Len(Events(last.log, "download")) >= 1 =>
              Events(last.log, "download")[1][2] = MODEL_LINKS \o last.arg[1]
        /\ Len(Events(last.log, "download")) = 2 =>
              /\ Events(last.log, "download")[1][4] = "fail"
              /\ get_backup_model_link(last.arg[1]) # None
              /\ Events(last.log, "download")[2][2]
                    = get_backup_model_link(last.arg[1]) \o last.arg[1]

\* C8: a call in which the primary and the backup download both fail ends
\* in SystemExit, after an error report naming the model and both URLs, and
\* leaves every cache table, the keys and the objects as they were.
C8_BothFailIsFatal ==
    [][Len(FailedDownloads(last'.log)) = 2 =>
          /\ last'.out = "exit"
          /\ last'.val = "SystemExit"
          /\ Len(Events(last'.log, "error")) = 1
          /\ Events(last'.log, "error")[1] =
                <<"error", Events(last'.log, "check_model")[Len(Events(last'.log, "check_model"))][2],
                  FailedDownloads(last'.log)[1][2], FailedDownloads(last'.log)[2][2]>>
          /\ UNCHANGED <<keys, zoo, heap>>
          /\ last'.op = "get_model" => last'.key \notin DOMAIN zoo'[last'.proc]
      ]_vars

C8_Witness ==
    /\ last.op = "get_model" /\ last.proc = "worker"
    /\ last.out = "exit"
    /\ Len(FailedDownloads(last.log)) = 2
    /\ last.key \notin DOMAIN zoo["worker"]

\* C9: for a model name matching no backup pattern, a failed primary
\* download is the only download attempt and ends in SystemExit after the
\* error report.
C9_NoBackupPatternIsFatal ==
    (/\ last.op = "check_model"
     /\ get_backup_model_link(last.arg[1]) = None
     /\ Len(FailedDownloads(last.log)) >= 1)
    => /\ Len(Events(last.log, "download")) = 1
       /\ last.out = "exit"
       /\ Len(Events(last.log, "error")) = 1

\* the file <CacheDirectory>/<modelName>
CachedFile(model_name) == DJMC \o "/" \o model_name

\* check_model(model_name, force=True) on an existing cached file, under
\* the condition pre on the state before the call: the file is removed
\* before any download attempt, a download attempt follows, and unless the
\* call returns the file is left absent
ForcedDeletion(pre) ==
    (/\ last'.op = "check_model" /\ last'.arg[2] = "True"
     /\ exists(fs, CachedFile(last'.arg[1]))
     /\ pre)
    => /\ \E i \in 1..Len(last'.log) :
             /\ last'.log[i] = <<"remove", CachedFile(last'.arg[1])>>
             /\ \A j \in 1..i : last'.log[j][1] # "download"
       /\ Events(last'.log, "download") # <<>>
       /\ last'.out # "return" => ~exists(fs', CachedFile(last'.arg[1]))

\* C10 as stated: with force=True, an existing cached file is deleted before
\* the first download attempt, whatever the download does.
C10_ForcedDeletionAlways == [][ForcedDeletion(TRUE)]_vars

\* C10 as amended: the same, for a model name that is not itself an existing
\* local path.
C10_ForcedDeletionUnlessLocal == [][ForcedDeletion(~exists(fs, last'.arg[1]))]_vars

C10_Witness ==
    /\ last.op = "check_model" /\ last.arg = <<"lid.176.bin", "True">>
    /\ Len(Events(last.log, "remove")) = 1
    /\ last.out = "exit"
    /\ ~exists(fs, CachedFile("lid.176.bin"))

\* C11: two check_model(model_name) calls in a row, force=False, with the
\* artifact present as model_name itself or in the cache directory: both
\* return the same path, neither attempts a download, no file is removed
\* and the files are as before.
C11_IdempotentResolution ==
    [][(/\ last'.op = "check_model_twice"
        /\ (exists(fs, last'.arg[1]) \/ exists(fs, CachedFile(last'.arg[1]))))
       => /\ last'.out = "return"
          /\ Len(Events(last'.log, "check_model")) = 2
          /\ Events(last'.log, "return") = << <<"return", last'.val>> >>
          /\ Events(last'.log, "download") = <<>>
          /\ Events(last'.log, "remove") = <<>>
          /\ fs' = fs
      ]_vars

C11_Witness ==
    /\ last.op = "check_model_twice" /\ last.arg[1] = "lid.176.bin"
    /\ last.out = "return" /\ last.val = CachedFile("lid.176.bin")
    /\ Len(Events(last.log, "check_model")) = 2
    /\ fs[CachedFile("lid.176.bin")] = "corrupt"

\* C12: check_model(model_name, force) on a model_name that is an existing
\* path returns model_name, for either force, and does nothing else: no
\* cache directory created, no file removed or written, no download.
C12_LocalPathBypassesCache ==
    [][(last'.op = "check_model" /\ exists(fs, last'.arg[1]))
       => /\ last'.out = "return"
          /\ last'.val = last'.arg[1]
          /\ last'.log = << <<"check_model", last'.arg[1], last'.arg[2]>> >>
          /\ fs' = fs
          /\ djmc' = djmc
      ]_vars

C12_Witness ==
    /\ last.op = "check_model" /\ last.arg = <<"lid.176.bin", "True">>
    /\ last.val = "lid.176.bin"
    /\ ~djmc
    /\ exists(fs, "lid.176.bin")

\* a call that ran a loader: the family it ran, and whether it failed for
\* an invalid configuration rather than in a load attempt
LoaderFamily(log) == Events(log, "loader")[1][2]

InvalidConfiguration(l) ==
    l.out = "raise" /\ l.val \in {"AssertionError", "ValueError", "TypeError"}

\* whether a load attempt without force succeeds on the files fs
FirstAttemptLoads(family) ==
    attempt([fs |-> fs, djmc |-> djmc, log |-> <<>>], Artifact[family], FALSE,
            family = "spacy", "Model", Quiet).out = "return"

\* the calls of check_model a loader of these families made, for a call
\* whose configuration is valid: one without force first; a second, with
\* force, exactly when the first load attempt failed; never a third; and at
\* most two loads
RetryOnce(families) ==
    (/\ last'.op \in {"prepare_model", "get_model"}
     /\ LoaderCalls(last'.log) = 1
     /\ LoaderFamily(last'.log) \in families
     /\ ~InvalidConfiguration(last'))
    => /\ Len(Events(last'.log, "check_model")) \in 1..2
       /\ Events(last'.log, "check_model")[1]
             = <<"check_model", Artifact[LoaderFamily(last'.log)], "False">>
       /\ Len(Events(last'.log, "check_model")) = 2
             <=> ~FirstAttemptLoads(LoaderFamily(last'.log))
       /\ Len(Events(last'.log, "check_model")) = 2 =>
             Events(last'.log, "check_model")[2]
                = <<"check_model", Artifact[LoaderFamily(last'.log)], "True">>
       /\ Len(Events(last'.log, "load")) <= 2
       /\ last'.out # "return" =>
             /\ Len(Events(last'.log, "check_model")) = 2
             /\ UNCHANGED <<keys, zoo, heap>>

\* the loaders that resolve no artifact: no check_model, no load through
\* it, and a failure of from_pretrained propagates at once
SingleAttempt(families) ==
    (/\ last'.op \in {"prepare_model", "get_model"}
     /\ LoaderCalls(last'.log) = 1
     /\ LoaderFamily(last'.log) \in families)
    => /\ Events(last'.log, "check_model") = <<>>
       /\ Events(last'.log, "download") = <<>>
       /\ Events(last'.log, "load") = <<>>
       /\ last'.out # "return" => UNCHANGED <<keys, zoo, heap, fs, djmc>>

Invalid(model_type, kwargs) ==
    \/ model_type \notin MODEL_FUNCTION_MAPPING
    \/ model_type = "nltk" /\ kwargs.lang \notin {"en", "fr", "pt", "es"}
    \/ /\ model_type = "diffusion"
       /\ \/ kwargs.diffusion_type \notin {"image2image", "text2image", "inpainting"}
          \/ kwarg(kwargs, "floating_point", "fp32") \notin {"fp32", "fp16"}
          \/ ~use_cuda /\ kwarg(kwargs, "floating_point", "fp32") = "fp16"

\* C14: prepare_model on an invalid configuration raises at once: the
\* loader is entered at most once, check_model is not called (so nothing is
\* resolved with force, downloaded or removed), and keys, tables, objects
\* and files are as before the call.
C14_InvalidConfigurationFailsAtOnce ==
    [][(last'.op = "prepare_model" /\ Invalid(last'.arg[1], last'.arg[2]))
       => /\ last'.out = "raise"
          /\ last'.val \in {"AssertionError", "ValueError"}
          /\ LoaderCalls(last'.log) <= 1
          /\ Events(last'.log, "check_model") = <<>>
          /\ Events(last'.log, "download") = <<>>
          /\ Events(last'.log, "remove") = <<>>
          /\ Events(last'.log, "load") = <<>>
          /\ UNCHANGED <<keys, zoo, heap, fs, djmc>>
      ]_vars

C14_Witness ==
    /\ last.op = "prepare_model" /\ last.arg[1] = "diffusion"
    /\ kwarg(last.arg[2], "floating_point", "fp32") = "fp16"
    /\ ~use_cuda
    /\ last.out = "raise" /\ last.val = "ValueError"
    /\ DOMAIN zoo["main"] # {}

\* the device get_model(model_key, rank) places on
TargetDevice(rank) == "cuda:" \o (IF rank = None THEN "0" ELSE rank)

\* the "to" calls move_to_cuda makes on an object for a device, in order
ToCalls(obj, device) ==
    [i \in 1..Len(SelectSeq(obj.elems, has_to)) |->
        <<"to", SelectSeq(obj.elems, has_to)[i], device>>]

\* C15: a get_model on a key other than None that returns an object: under
\* use_cuda(), every element of the object that has a to() was moved, in
\* this call, to cuda:<rank>, cuda:0 for rank None, and is there on return;
\* without use_cuda(), no to() is called and the devices of a stored object
\* are as before, those of a new one "cpu".
C15_PlacementOnGet ==
    [][(last'.op = "get_model" /\ last'.key # NoneKey /\ last'.out = "return")
       => /\ last'.ret = zoo'[last'.proc][last'.key]
          /\ IF use_cuda
             THEN /\ Events(last'.log, "to")
                      = ToCalls(heap'[last'.ret], TargetDevice(last'.arg[1]))
                  /\ \A i \in 1..Len(heap'[last'.ret].elems) :
                        has_to(heap'[last'.ret].elems[i])
                          => heap'[last'.ret].device[i] = TargetDevice(last'.arg[1])
             ELSE /\ Events(last'.log, "to") = <<>>
                  /\ IF last'.key \in DOMAIN zoo[last'.proc]
                     THEN heap'[last'.ret].device = heap[last'.ret].device
                     ELSE \A i \in 1..Len(heap'[last'.ret].elems) :
                            heap'[last'.ret].device[i] = "cpu"
      ]_vars

C15_Witness ==
    /\ last.op = "get_model" /\ last.arg = <<None>> /\ last.out = "return"
    /\ last.key # NoneKey
    /\ use_cuda
    /\ LoaderCalls(last.log) = 0
    /\ heap[last.ret].elems = <<"PreTrainedModel", "Processor">>
    /\ heap[last.ret].device = <<"cuda:0", "cpu">>
    /\ Events(last.log, "to") = << <<"to", "PreTrainedModel", "cuda:0">> >>

\* C16: move_to_cuda(model, rank) returns for every object, with every
\* element that has a to() on cuda:<rank> and every other element where it
\* was.
C16_PlaceNeverFails ==
    (last.op = "move_to_cuda" /\ last.key = NoneKey)
    => /\ last.out = "return"
       /\ Events(last.log, "to") = ToCalls(heap[1], "cuda:" \o last.arg[1])
       /\ \A i \in 1..Len(heap[1].elems) :
             heap[1].device[i] = IF has_to(heap[1].elems[i]) THEN "cuda:" \o last.arg[1]
                                 ELSE last.arg[2][i]

\* the thread whose write to MODEL_ZOO was the latest
LastWriter == CHOOSE t \in Threads : \A u \in Threads : thr[u].stamp <= thr[t].stamp

\* what C17 says of the table: at most two loader calls; a get that has
\* returned returned an object of the key; once every get has returned, the
\* table holds one entry, the object of the latest write, and a later get
\* returns it
TableAfterConcurrentGets ==
    /\ Len(Events(thr["t1"].log, "loader")) + Len(Events(thr["t2"].log, "loader")) <= 2
    /\ \A t \in Threads : thr[t].pc = "done" =>
          /\ thr[t].ret \in 1..Len(heap)
          /\ heap[thr[t].ret].key = thr[t].key
    /\ (\A t \in Threads : thr[t].pc = "done") =>
          /\ DOMAIN zoo["worker"] = {1}
          /\ thr[LastWriter].stamp > 0
          /\ zoo["worker"][1] = thr[LastWriter].obj
          /\ \A t \in Threads : thr[t].n > 0 => thr[t].ret = zoo["worker"][1]

\* C17: two threads of one process in get_model on the same absent key,
\* under every interleaving: no get fails, and the table is as C17 says.
C17_ConcurrentGetsBothReturn ==
    /\ \A t \in Threads : thr[t].pc # "failed"
    /\ TableAfterConcurrentGets

\* the downloads of thread t that completed
Downloaded(t) == SelectSeq(Events(thr[t].log, "download"), LAMBDA ev : ev[4] # "fail")

\* C18: two processes in the same loader, the artifact absent at the start:
\* once a process has written a complete copy the cached file stays
\* complete, and when both calls are over both have returned, each with its
\* model stored, and the file is complete.
C18_ConcurrentLoadersKeepFile ==
    /\ (\E t \in Threads : Downloaded(t) # <<>>)
          => fs[join(DJMC, Artifact[thr["t1"].family])] = "good"
    /\ (\A t \in Threads : thr[t].pc \in {"done", "failed"})
          => /\ \A t \in Threads :
                   /\ thr[t].pc = "done"
                   /\ thr[t].key \in DOMAIN zoo[thr[t].proc]
             /\ fs[join(DJMC, Artifact[thr["t1"].family])] = "good"

\* the positions of the patterns of table that model_name matches
Matching(table, model_name) ==
    {i \in 1..Len(table) : fnmatch(model_name, table[i][1])}

\* C19: get_backup_model_link returns None exactly when no pattern of the
\* table matches, and otherwise the URL of the matching pattern declared
\* first, whatever matches after it.
C19_FirstMatchWins ==
    last.op = "get_backup_model_link" =>
        /\ last.val = None <=> Matching(last.arg[1], last.arg[2]) = {}
        /\ \A i \in Matching(last.arg[1], last.arg[2]) :
              (\A j \in Matching(last.arg[1], last.arg[2]) : i <= j)
                 => last.val = last.arg[1][i][2]

C19_Witness ==
    /\ last.op = "get_backup_model_link"
    /\ last.arg[2] = "b.bin"
    /\ Matching(last.arg[1], last.arg[2]) = {2, 3}
    /\ last.val = "https://backup2/"

\* the call of thread t1 has returned with the artifact in the cache
\* directory, its key in the MODEL_ZOO of its process, and one download made
ColdStartDone ==
    /\ thr["t1"].pc = "done" /\ thr["t1"].out = "return"
    /\ fs[join(DJMC, Artifact[thr["t1"].family])] = "good"
    /\ thr["t1"].key \in DOMAIN zoo[thr["t1"].proc]
    /\ Len(Events(thr["t1"].log, "download")) = 1

\* C20 as stated: a prepare_model or first get_model of an artifact-backed
\* loader, the artifact absent from the cache directory and the download
\* loadable, eventually returns with the artifact cached, the key in
\* MODEL_ZOO and exactly one download made.
C20_ColdStart == (thr["t1"].pc = "call") ~> ColdStartDone

\* C20 as amended: the same, when the model name is not itself an existing
\* path.
C20_ColdStartNoLocalFile ==
    (thr["t1"].pc = "call" /\ ~exists(fs, Artifact[thr["t1"].family])) ~> ColdStartDone

C20_Witness ==
    /\ ColdStartDone
    /\ thr["t1"].op = "get_model" /\ thr["t1"].family = "kenlm"
    /\ Events(thr["t1"].log, "check_model")
          = << <<"check_model", "en.arpa.bin", "False">>,
               <<"check_model", "en.arpa.bin", "True">> >>

====
